---- MODULE Spec2Model ----
(***************************************************************************)
(* A model of lib/pythonx/ast/scan_globals.py: the GlobalsVisitor walks a  *)
(* parsed Python module once, keeps a stack of lexical scopes and collects *)
(* the names that are loaded while no scope on the stack defines them.     *)
(*                                                                         *)
(* The recursion of ast.NodeVisitor is modelled by an explicit stack of    *)
(* pending tasks (work): a handler that calls self.visit on a child and    *)
(* carries on afterwards leaves its continuation below the child's task.   *)
(***************************************************************************)
EXTENDS Integers, Sequences, FiniteSets, TLC

(***************************************************************************)
(* Bounds of the model.                                                    *)
(***************************************************************************)
\* Statements in the body of the analysed module.
MaxBody == 2
\* Generator clauses of one comprehension.
MaxGens == 2
\* Evaluations of the script on the same tree.
MaxRuns == 2

(***************************************************************************)
(* Syntax trees, as ast.parse builds them. The fields of a node carry the  *)
(* names of Python's ast classes. An absent optional child is NoneNode, an *)
(* absent optional string is None.                                         *)
(***************************************************************************)
None == "None"
NoneNode == [kind |-> "None"]

Names == {"x", "y"}
\* The names the host interpreter predefines.
builtin_names == {"range"}
AllNames == Names \cup builtin_names
\* The names given to functions and classes.
DefNames == {"f", "x"}

Name(id, ctx) == [kind |-> "Name", id |-> id, ctx |-> ctx]
Load(id) == Name(id, "Load")
Store(id) == Name(id, "Store")
Del(id) == Name(id, "Del")
Constant == [kind |-> "Constant"]
Module(body) == [kind |-> "Module", body |-> body]
Expr(value) == [kind |-> "Expr", value |-> value]
Return(value) == [kind |-> "Return", value |-> value]
Pass == [kind |-> "Pass"]
Delete(targets) == [kind |-> "Delete", targets |-> targets]
Call(func, args) == [kind |-> "Call", func |-> func, args |-> args]
Attribute(value, attr, ctx) ==
  [kind |-> "Attribute", value |-> value, attr |-> attr, ctx |-> ctx]
Tuple(elts, ctx) == [kind |-> "Tuple", elts |-> elts, ctx |-> ctx]
arg(a, annotation) == [kind |-> "arg", arg |-> a, annotation |-> annotation]
arguments(posonlyargs, args, vararg, kwonlyargs, kw_defaults, kwarg, defaults) ==
  [kind |-> "arguments", posonlyargs |-> posonlyargs, args |-> args,
   vararg |-> vararg, kwonlyargs |-> kwonlyargs, kw_defaults |-> kw_defaults,
   kwarg |-> kwarg, defaults |-> defaults]
FunctionDef(name, args, body, decorator_list, returns) ==
  [kind |-> "FunctionDef", name |-> name, args |-> args, body |-> body,
   decorator_list |-> decorator_list, returns |-> returns]
AsyncFunctionDef(name, args, body, decorator_list, returns) ==
  [kind |-> "AsyncFunctionDef", name |-> name, args |-> args, body |-> body,
   decorator_list |-> decorator_list, returns |-> returns]
ClassDef(name, bases, body, decorator_list) ==
  [kind |-> "ClassDef", name |-> name, bases |-> bases, body |-> body,
   decorator_list |-> decorator_list]
Lambda(args, body) == [kind |-> "Lambda", args |-> args, body |-> body]
ListComp(elt, generators) ==
  [kind |-> "ListComp", elt |-> elt, generators |-> generators]
SetComp(elt, generators) ==
  [kind |-> "SetComp", elt |-> elt, generators |-> generators]
GeneratorExp(elt, generators) ==
  [kind |-> "GeneratorExp", elt |-> elt, generators |-> generators]
DictComp(key, value, generators) ==
  [kind |-> "DictComp", key |-> key, value |-> value, generators |-> generators]
comprehension(target, iter, ifs) ==
  [kind |-> "comprehension", target |-> target, iter |-> iter, ifs |-> ifs]
\* alias.name is a Python string, kept as its sequence of characters so that
\* split(".") has something to split; asname is an identifier or None.
alias(name, asname) == [kind |-> "alias", name |-> name, asname |-> asname]
Import(names) == [kind |-> "Import", names |-> names]
ImportFrom(names) == [kind |-> "ImportFrom", names |-> names]
Assign(targets, value) == [kind |-> "Assign", targets |-> targets, value |-> value]
AugAssign(target, value) == [kind |-> "AugAssign", target |-> target, value |-> value]
NamedExpr(target, value) == [kind |-> "NamedExpr", target |-> target, value |-> value]
AnnAssign(target, annotation, value) ==
  [kind |-> "AnnAssign", target |-> target, annotation |-> annotation,
   value |-> value]
For(target, iter, body, orelse) ==
  [kind |-> "For", target |-> target, iter |-> iter, body |-> body,
   orelse |-> orelse]
ExceptHandler(type, name, body) ==
  [kind |-> "ExceptHandler", type |-> type, name |-> name, body |-> body]
Try(body, handlers, orelse, finalbody) ==
  [kind |-> "Try", body |-> body, handlers |-> handlers, orelse |-> orelse,
   finalbody |-> finalbody]
Match(subject, cases) == [kind |-> "Match", subject |-> subject, cases |-> cases]
match_case(pattern, guard, body) ==
  [kind |-> "match_case", pattern |-> pattern, guard |-> guard, body |-> body]
MatchValue(value) == [kind |-> "MatchValue", value |-> value]
MatchSequence(patterns) == [kind |-> "MatchSequence", patterns |-> patterns]
MatchAs(pattern, name) == [kind |-> "MatchAs", pattern |-> pattern, name |-> name]
MatchStar(name) == [kind |-> "MatchStar", name |-> name]
MatchMapping(keys, patterns, rest) ==
  [kind |-> "MatchMapping", keys |-> keys, patterns |-> patterns, rest |-> rest]

(***************************************************************************)
(* Python strings and sets, as the handlers use them.                      *)
(***************************************************************************)
IndexOf(s, sep) ==
  IF \E i \in 1..Len(s) : s[i] = sep
    THEN CHOOSE i \in 1..Len(s) : s[i] = sep /\ \A j \in 1..(i - 1) : s[j] # sep
    ELSE 0

RECURSIVE split(_, _)
\* str.split(sep): the segments of s between the occurrences of sep.
split(s, sep) ==
  IF IndexOf(s, sep) = 0
    THEN <<s>>
    ELSE <<SubSeq(s, 1, IndexOf(s, sep) - 1)>>
           \o split(SubSeq(s, IndexOf(s, sep) + 1, Len(s)), sep)

RECURSIVE str(_)
\* The identifier spelled by a sequence of characters.
str(chars) == IF chars = <<>> THEN "" ELSE Head(chars) \o str(Tail(chars))

(***************************************************************************)
(* The state of one evaluation of the script.                              *)
(***************************************************************************)
VARIABLES
  tree,     \* the parsed module (ast.parse(code)); never written
  refs,     \* visitor.refs: references to undefined globals
  scopes,   \* visitor.scopes: the scope stack, global scope first
  work,     \* pending tasks of the traversal, next task first
  pc,       \* "visit" while visitor.visit(tree) runs, "done" after the result
  results   \* the result pairs of the evaluations made so far

vars == <<tree, refs, scopes, work, pc, results>>

visit(node) == [op |-> "visit", node |-> node]
Continue(op, node) == [op |-> op, node |-> node]

\* self.visit applied to each AST item of a list, in order; None is skipped.
RECURSIVE VisitAll(_)
VisitAll(nodes) ==
  IF nodes = <<>> THEN <<>>
  ELSE IF Head(nodes) = NoneNode THEN VisitAll(Tail(nodes))
  ELSE <<visit(Head(nodes))>> \o VisitAll(Tail(nodes))

_push_scope(scs, is_comprehension) ==
  Append(scs, [defs |-> {}, is_comprehension |-> is_comprehension])

_pop_scope(scs) == SubSeq(scs, 1, Len(scs) - 1)

\* self.scopes[-1]["defs"].add(name)
AddDef(scs, name) == [scs EXCEPT ![Len(scs)].defs = @ \cup {name}]

\* is_defined with nearest-frame lookup: only the top frame is asked.
is_defined_nearest(scs, name) == name \in scs[Len(scs)].defs

is_defined(scs, name) == \E i \in 1..Len(scs) : name \in scs[i].defs

_handle_ref(rs, scs, name) == IF is_defined(scs, name) THEN rs ELSE rs \cup {name}

\* next(scope for scope in reversed(self.scopes) if not scope["is_comprehension"])
outer_scope(scs) ==
  CHOOSE i \in 1..Len(scs) :
    /\ ~scs[i].is_comprehension
    /\ \A j \in (i + 1)..Len(scs) : scs[j].is_comprehension

\* GlobalsVisitor.__init__
GlobalsVisitor == [refs |-> {}, scopes |-> _push_scope(<<>>, FALSE)]

\* The fields of a for loop with the iterable before the target.
For_fields_iter_first(n) == <<n.iter, n.target>> \o n.body \o n.orelse

\* ast.For._fields: target, iter, body, orelse (type_comment is a string).
For_fields(n) == <<n.target, n.iter>> \o n.body \o n.orelse

\* The children ast.NodeVisitor.generic_visit visits, in the order of the
\* node class's _fields; strings and None are not visited.
Fields(node) ==
  CASE node.kind = "Module" -> node.body
    [] node.kind \in {"Expr", "Return", "MatchValue"} -> <<node.value>>
    [] node.kind = "Delete" -> node.targets
    [] node.kind = "Call" -> <<node.func>> \o node.args
    [] node.kind = "Attribute" -> <<node.value>>
    [] node.kind = "Tuple" -> node.elts
    [] node.kind \in {"FunctionDef", "AsyncFunctionDef"} ->
         <<node.args>> \o node.body \o node.decorator_list \o <<node.returns>>
    [] node.kind = "ClassDef" -> node.bases \o node.body \o node.decorator_list
    [] node.kind = "Lambda" -> <<node.args, node.body>>
    [] node.kind = "For" -> For_fields(node)
    [] node.kind = "Try" ->
         node.body \o node.handlers \o node.orelse \o node.finalbody
    [] node.kind = "ExceptHandler" -> <<node.type>> \o node.body
    [] node.kind = "Match" -> <<node.subject>> \o node.cases
    [] node.kind = "match_case" -> <<node.pattern, node.guard>> \o node.body
    [] node.kind = "MatchSequence" -> node.patterns
    [] OTHER -> <<>>

\* The node classes GlobalsVisitor defines a visit_ method for.
Handled ==
  {"Name", "FunctionDef", "AsyncFunctionDef", "arguments", "arg", "ClassDef",
   "Lambda", "ListComp", "SetComp", "GeneratorExp", "DictComp", "comprehension",
   "Import", "ImportFrom", "Assign", "AugAssign", "NamedExpr", "AnnAssign",
   "MatchAs", "MatchStar", "MatchMapping"}

\* NodeVisitor.visit is about to call the method for a node of class kind.
Visiting(kind) ==
  /\ pc = "visit"
  /\ work # <<>>
  /\ Head(work).op = "visit"
  /\ Head(work).node.kind = kind

\* A handler is about to resume at the continuation op.
Resuming(op) ==
  /\ pc = "visit"
  /\ work # <<>>
  /\ Head(work).op = op

node == Head(work).node

(***************************************************************************)
(* The handlers of GlobalsVisitor, one action per visit_ method. A handler *)
(* that pushes a scope leaves the continuation "_pop_scope" under the      *)
(* tasks of its children; visit_AugAssign, visit_NamedExpr and             *)
(* visit_MatchMapping resume after the children they visit first.          *)
(***************************************************************************)
\* visit_Name where a store withdraws an earlier reference to the name.
visit_Name_retracts ==
  /\ Visiting("Name")
  /\ scopes' = IF node.ctx = "Store" THEN AddDef(scopes, node.id) ELSE scopes
  /\ refs' = IF node.ctx = "Load" THEN _handle_ref(refs, scopes, node.id)
             ELSE IF node.ctx = "Store" THEN refs \ {node.id}
             ELSE refs
  /\ work' = Tail(work)
  /\ UNCHANGED <<tree, pc, results>>

\* visit_Name that checks an identifier as a reference in whatever context.
visit_Name_any_ctx ==
  /\ Visiting("Name")
  /\ scopes' = IF node.ctx = "Store" THEN AddDef(scopes, node.id) ELSE scopes
  /\ refs' = _handle_ref(refs, scopes, node.id)
  /\ work' = Tail(work)
  /\ UNCHANGED <<tree, pc, results>>

visit_Name ==
  /\ Visiting("Name")
  /\ scopes' = IF node.ctx = "Store" THEN AddDef(scopes, node.id) ELSE scopes
  /\ refs' = IF node.ctx = "Load" THEN _handle_ref(refs, scopes, node.id) ELSE refs
  /\ work' = Tail(work)
  /\ UNCHANGED <<tree, pc, results>>

\* _visit_function_def with the name defined after the push, in the new frame.
_visit_function_def_inner_name(n) ==
  /\ scopes' = AddDef(_push_scope(scopes, FALSE), n.name)
  /\ work' = VisitAll(Fields(n)) \o <<Continue("_pop_scope", n)>> \o Tail(work)
  /\ UNCHANGED <<tree, refs, pc, results>>

_visit_function_def(n) ==
  /\ scopes' = _push_scope(AddDef(scopes, n.name), FALSE)
  /\ work' = VisitAll(Fields(n)) \o <<Continue("_pop_scope", n)>> \o Tail(work)
  /\ UNCHANGED <<tree, refs, pc, results>>

visit_FunctionDef == Visiting("FunctionDef") /\ _visit_function_def(node)

visit_AsyncFunctionDef == Visiting("AsyncFunctionDef") /\ _visit_function_def(node)

\* visit_arguments in plain field order: the parameters before the defaults.
arguments_order_params_first(n) ==
  n.posonlyargs \o n.args \o <<n.vararg>> \o n.kwonlyargs \o n.kw_defaults
    \o <<n.kwarg>> \o n.defaults

\* The order in which visit_arguments visits the parts of a parameter list.
arguments_order(n) ==
  n.defaults \o n.kw_defaults \o n.posonlyargs \o n.args \o <<n.vararg>>
    \o n.kwonlyargs \o <<n.kwarg>>

visit_arguments ==
  /\ Visiting("arguments")
  /\ work' = VisitAll(arguments_order(node)) \o Tail(work)
  /\ UNCHANGED <<tree, refs, scopes, pc, results>>

visit_arg ==
  /\ Visiting("arg")
  /\ scopes' = AddDef(scopes, node.arg)
  /\ work' = Tail(work)
  /\ UNCHANGED <<tree, refs, pc, results>>

visit_ClassDef ==
  /\ Visiting("ClassDef")
  /\ scopes' = _push_scope(AddDef(scopes, node.name), FALSE)
  /\ work' = VisitAll(Fields(node)) \o <<Continue("_pop_scope", node)>> \o Tail(work)
  /\ UNCHANGED <<tree, refs, pc, results>>

visit_Lambda ==
  /\ Visiting("Lambda")
  /\ scopes' = _push_scope(scopes, FALSE)
  /\ work' = VisitAll(Fields(node)) \o <<Continue("_pop_scope", node)>> \o Tail(work)
  /\ UNCHANGED <<tree, refs, pc, results>>

\* _visit_comprehension_expr without a frame of its own.
_visit_comprehension_expr_no_frame(n) ==
  /\ work' = VisitAll(n.generators \o <<n.elt>>) \o Tail(work)
  /\ UNCHANGED <<tree, refs, scopes, pc, results>>

_visit_comprehension_expr(n) ==
  /\ scopes' = _push_scope(scopes, TRUE)
  /\ work' = VisitAll(n.generators \o <<n.elt>>)
               \o <<Continue("_pop_scope", n)>> \o Tail(work)
  /\ UNCHANGED <<tree, refs, pc, results>>

visit_ListComp == Visiting("ListComp") /\ _visit_comprehension_expr(node)

visit_SetComp == Visiting("SetComp") /\ _visit_comprehension_expr(node)

visit_GeneratorExp == Visiting("GeneratorExp") /\ _visit_comprehension_expr(node)

visit_DictComp ==
  /\ Visiting("DictComp")
  /\ scopes' = _push_scope(scopes, TRUE)
  /\ work' = VisitAll(node.generators \o <<node.key, node.value>>)
               \o <<Continue("_pop_scope", node)>> \o Tail(work)
  /\ UNCHANGED <<tree, refs, pc, results>>

\* The order in which visit_comprehension visits a generator clause.
\* visit_comprehension in the order of the fields: target, iter, ifs.
comprehension_order_target_first(n) == <<n.target, n.iter>> \o n.ifs

comprehension_order(n) == <<n.iter, n.target>> \o n.ifs

visit_comprehension ==
  /\ Visiting("comprehension")
  /\ work' = VisitAll(comprehension_order(node)) \o Tail(work)
  /\ UNCHANGED <<tree, refs, scopes, pc, results>>

\* A handler that returns without popping the scope it pushed.
pop_scope_forgets ==
  /\ Resuming("_pop_scope")
  /\ work' = Tail(work)
  /\ UNCHANGED <<tree, refs, scopes, pc, results>>

\* A pop that hands the definitions of the popped frame to the frame under it.
pop_scope_keeps_defs ==
  /\ Resuming("_pop_scope")
  /\ scopes' = [_pop_scope(scopes) EXCEPT ![Len(scopes) - 1].defs =
                                            @ \cup scopes[Len(scopes)].defs]
  /\ work' = Tail(work)
  /\ UNCHANGED <<tree, refs, pc, results>>

\* The tail of every handler that pushed a scope: self._pop_scope().
pop_scope ==
  /\ Resuming("_pop_scope")
  /\ scopes' = _pop_scope(scopes)
  /\ work' = Tail(work)
  /\ UNCHANGED <<tree, refs, pc, results>>

\* alias.asname or alias.name, the dotted path unsplit.
Import_name_whole(a) == IF a.asname # None THEN a.asname ELSE str(a.name)

\* alias.asname or alias.name.split(".")[0]
Import_name(a) == IF a.asname # None THEN a.asname ELSE str(split(a.name, ".")[1])

\* alias.asname or alias.name
ImportFrom_name(a) == IF a.asname # None THEN a.asname ELSE str(a.name)

RECURSIVE AddDefs(_, _)
AddDefs(scs, ids) ==
  IF ids = <<>> THEN scs ELSE AddDefs(AddDef(scs, Head(ids)), Tail(ids))

visit_Import ==
  /\ Visiting("Import")
  /\ scopes' = AddDefs(scopes, [i \in 1..Len(node.names) |-> Import_name(node.names[i])])
  /\ work' = Tail(work)
  /\ UNCHANGED <<tree, refs, pc, results>>

visit_ImportFrom ==
  /\ Visiting("ImportFrom")
  /\ scopes' = AddDefs(scopes,
                       [i \in 1..Len(node.names) |-> ImportFrom_name(node.names[i])])
  /\ work' = Tail(work)
  /\ UNCHANGED <<tree, refs, pc, results>>

\* visit_Assign in plain field order: the targets before the value.
Assign_order_targets_first(n) == n.targets \o <<n.value>>

\* The order in which visit_Assign visits the parts of an assignment.
Assign_order(n) == <<n.value>> \o n.targets

visit_Assign ==
  /\ Visiting("Assign")
  /\ work' = VisitAll(Assign_order(node)) \o Tail(work)
  /\ UNCHANGED <<tree, refs, scopes, pc, results>>

visit_AugAssign ==
  /\ Visiting("AugAssign")
  /\ work' = <<visit(node.value), Continue("AugAssign_target", node)>> \o Tail(work)
  /\ UNCHANGED <<tree, refs, scopes, pc, results>>

\* visit_AugAssign with the target stored before it is checked as a load.
visit_AugAssign_target_store_first ==
  /\ Resuming("AugAssign_target")
  /\ refs' = IF node.target.kind = "Name"
               THEN _handle_ref(refs, AddDef(scopes, node.target.id), node.target.id)
               ELSE refs
  /\ work' = <<visit(node.target)>> \o Tail(work)
  /\ UNCHANGED <<tree, scopes, pc, results>>

\* visit_AugAssign after self.visit(node.value) has returned.
visit_AugAssign_target ==
  /\ Resuming("AugAssign_target")
  /\ refs' = IF node.target.kind = "Name"
               THEN _handle_ref(refs, scopes, node.target.id)
               ELSE refs
  /\ work' = <<visit(node.target)>> \o Tail(work)
  /\ UNCHANGED <<tree, scopes, pc, results>>

visit_NamedExpr ==
  /\ Visiting("NamedExpr")
  /\ work' = <<visit(node.value), Continue("NamedExpr_target", node)>> \o Tail(work)
  /\ UNCHANGED <<tree, refs, scopes, pc, results>>

\* The frame right under the top one, comprehension or not.
NamedExpr_scope_enclosing(scs) == Len(scs) - 1

\* The frame visit_NamedExpr defines a leaking walrus target in.
NamedExpr_scope(scs) == outer_scope(scs)

\* visit_NamedExpr after self.visit(node.value) has returned.
visit_NamedExpr_target ==
  /\ Resuming("NamedExpr_target")
  /\ IF scopes[Len(scopes)].is_comprehension /\ node.target.kind = "Name"
       THEN /\ scopes' = [scopes EXCEPT ![NamedExpr_scope(scopes)].defs =
                                          @ \cup {node.target.id}]
            /\ work' = Tail(work)
       ELSE /\ scopes' = scopes
            /\ work' = <<visit(node.target)>> \o Tail(work)
  /\ UNCHANGED <<tree, refs, pc, results>>

visit_AnnAssign ==
  /\ Visiting("AnnAssign")
  /\ work' = VisitAll(<<node.value, node.target>>) \o Tail(work)
  /\ UNCHANGED <<tree, refs, scopes, pc, results>>

\* visit_MatchAs that checks the capture name as a reference.
visit_MatchAs_as_ref ==
  /\ Visiting("MatchAs")
  /\ refs' = IF node.name # None THEN _handle_ref(refs, scopes, node.name) ELSE refs
  /\ work' = VisitAll(<<node.pattern>>) \o Tail(work)
  /\ UNCHANGED <<tree, scopes, pc, results>>

visit_MatchAs ==
  /\ Visiting("MatchAs")
  /\ scopes' = IF node.name # None THEN AddDef(scopes, node.name) ELSE scopes
  /\ work' = VisitAll(<<node.pattern>>) \o Tail(work)
  /\ UNCHANGED <<tree, refs, pc, results>>

visit_MatchStar ==
  /\ Visiting("MatchStar")
  /\ scopes' = IF node.name # None THEN AddDef(scopes, node.name) ELSE scopes
  /\ work' = Tail(work)
  /\ UNCHANGED <<tree, refs, pc, results>>

visit_MatchMapping ==
  /\ Visiting("MatchMapping")
  /\ work' = VisitAll(node.keys \o node.patterns)
               \o <<Continue("MatchMapping_rest", node)>> \o Tail(work)
  /\ UNCHANGED <<tree, refs, scopes, pc, results>>

\* visit_MatchMapping after the keys and the patterns have been visited.
visit_MatchMapping_rest ==
  /\ Resuming("MatchMapping_rest")
  /\ scopes' = IF node.rest # None THEN AddDef(scopes, node.rest) ELSE scopes
  /\ work' = Tail(work)
  /\ UNCHANGED <<tree, refs, pc, results>>

\* A node class without a visit_ method: NodeVisitor.generic_visit.
generic_visit ==
  /\ pc = "visit"
  /\ work # <<>>
  /\ Head(work).op = "visit"
  /\ node.kind \notin Handled
  /\ work' = VisitAll(Fields(node)) \o Tail(work)
  /\ UNCHANGED <<tree, refs, scopes, pc, results>>

\* The builtin names taken out of both components.
ResultPair_filter_defs(rs, scs) == <<rs \ builtin_names, scs[1].defs \ builtin_names>>

\* (visitor.refs - builtin_names, visitor.scopes[0]["defs"])
ResultPair(rs, scs) == <<rs \ builtin_names, scs[1].defs>>

\* visitor.visit(tree) has returned: the script's value.
Result ==
  /\ pc = "visit"
  /\ work = <<>>
  /\ results' = Append(results, ResultPair(refs, scopes))
  /\ pc' = "done"
  /\ UNCHANGED <<tree, refs, scopes, work>>

\* A second evaluation that goes on with the visitor of the first.
Evaluate_keeps_state ==
  /\ pc = "done"
  /\ Len(results) < MaxRuns
  /\ work' = <<visit(tree)>>
  /\ pc' = "visit"
  /\ UNCHANGED <<tree, refs, scopes, results>>

\* The script is evaluated again on the same tree, with a new visitor.
Evaluate ==
  /\ pc = "done"
  /\ Len(results) < MaxRuns
  /\ refs' = GlobalsVisitor.refs
  /\ scopes' = GlobalsVisitor.scopes
  /\ work' = <<visit(tree)>>
  /\ pc' = "visit"
  /\ UNCHANGED <<tree, results>>

(***************************************************************************)
(* The trees the analysis is run on: every module whose body is one        *)
(* statement of Stmts, alone or among simple statements before and after   *)
(* it, up to MaxBody statements.                                           *)
(***************************************************************************)
E0 == {Load(n) : n \in AllNames} \cup {Constant}

LoadNames == {Load(n) : n \in Names}

\* range(3)
RangeCall == Call(Load("range"), <<Constant>>)

NoArgs == arguments(<<>>, <<>>, NoneNode, <<>>, <<>>, NoneNode, <<>>)

OneArg(p) == arguments(<<>>, <<arg(p, NoneNode)>>, NoneNode, <<>>, <<>>, NoneNode, <<>>)

\* Parameter lists: (), (p), (p=d), (x, /, y=d), (*x, y=d, **k), (*, y=d), (x: a).
ArgSpecs ==
  {NoArgs}
    \cup {arguments(<<>>, <<arg(p, NoneNode)>>, NoneNode, <<>>, <<>>, NoneNode, d) :
            p \in Names, d \in {<<>>} \cup {<<e>> : e \in LoadNames}}
    \cup {arguments(<<arg("x", NoneNode)>>, <<arg("y", NoneNode)>>, NoneNode, <<>>,
                    <<>>, NoneNode, <<e>>) : e \in LoadNames}
    \cup {arguments(<<>>, <<>>, v[1], <<arg("y", NoneNode)>>, <<d>>, v[2], <<>>) :
            v \in {<<NoneNode, NoneNode>>, <<arg("x", NoneNode), arg("k", NoneNode)>>},
            d \in {NoneNode} \cup LoadNames}
    \cup {arguments(<<>>, <<arg("x", a)>>, NoneNode, <<>>, <<>>, NoneNode, <<>>) :
            a \in LoadNames}

Lambdas == {Lambda(a, b) : a \in ArgSpecs, b \in LoadNames}

Walrus == {NamedExpr(Store(t), v) : t \in Names, v \in E0}

\* One generator clause: for t in i [if c].
Clauses ==
  {comprehension(Store(t), i, c) :
     t \in Names, i \in LoadNames \cup {RangeCall},
     c \in {<<>>} \cup {<<e>> : e \in LoadNames}}

PlainClauses == {c \in Clauses : c.ifs = <<>>}

\* The clauses of a comprehension with several: for t in i, i an identifier.
ChainClauses == {c \in PlainClauses : c.iter.kind = "Name"}

RECURSIVE SeqsOf(_, _)
\* The sequences of exactly n elements of S.
SeqsOf(S, n) ==
  IF n = 0 THEN {<<>>}
  ELSE {Append(q, e) : q \in SeqsOf(S, n - 1), e \in S}

\* The generator lists of several clauses, up to MaxGens.
Chains == UNION {SeqsOf(ChainClauses, k) : k \in 2..MaxGens}

\* Result expressions of a comprehension.
Elts ==
  LoadNames
    \cup {NamedExpr(Store(t), Load(v)) : t \in Names, v \in Names}
    \cup {Lambda(NoArgs, NamedExpr(Store("y"), Load("x")))}
    \cup {ListComp(NamedExpr(Store("y"), Load(v)), <<c>>) :
            v \in Names, c \in {comprehension(Store("x"), RangeCall, <<>>)}}

ListComps ==
  {ListComp(e, <<c>>) : e \in Elts, c \in Clauses}
    \cup {ListComp(e, g) :
            e \in LoadNames \cup {NamedExpr(Store("y"), Load("x"))}, g \in Chains}
    \cup {ListComp(Load(v), <<comprehension(Store("x"), RangeCall,
                                             <<NamedExpr(Store("y"), Load("x"))>>)>>) :
            v \in Names}
    \cup {ListComp(Load(v), <<comprehension(Tuple(<<Store("x"), Store("y")>>, "Store"),
                                             RangeCall, <<>>)>>) : v \in Names}

SetComps == {SetComp(e, <<c>>) : e \in Elts, c \in PlainClauses}

GeneratorExps == {GeneratorExp(e, <<c>>) : e \in Elts, c \in PlainClauses}

DictComps ==
  {DictComp(k, v, <<c>>) :
     k \in LoadNames,
     v \in LoadNames \cup {NamedExpr(Store("y"), Load("x"))},
     c \in PlainClauses}

E1 ==
  Lambdas \cup Walrus \cup ListComps \cup SetComps \cup GeneratorExps \cup DictComps
    \cup {Call(Load(f), <<a>>) : f \in AllNames, a \in LoadNames}

\* Dotted module paths, as strings.
ModulePaths ==
  {<<"x">>, <<"y">>, <<"x", ".", "y">>, <<"y", ".", "x", ".", "x">>,
   <<"x", "y", ".", "x">>}

Aliases == {alias(m, a) : m \in ModulePaths, a \in {None} \cup Names}

FromAliases == {alias(<<n>>, a) : n \in Names, a \in {None} \cup Names}

SimpleStmts ==
  {Expr(e) : e \in E0 \cup E1}
    \cup {Assign(<<Store(t)>>, v) : t \in AllNames, v \in E0}
    \cup {Assign(<<Store("x"), Store("y")>>, v) : v \in LoadNames}
    \cup {Assign(<<Tuple(<<Store("x"), Store("y")>>, "Store")>>, v) : v \in LoadNames}
    \cup {Assign(<<Store(t)>>, NamedExpr(Store(u), Load(v))) :
            t \in Names, u \in Names, v \in Names}
    \cup {AugAssign(Store(t), v) : t \in Names, v \in E0 \cup Walrus}
    \cup {AugAssign(Attribute(Load(t), "a", "Store"), v) : t \in Names, v \in LoadNames}
    \cup {AnnAssign(Store(t), Load(a), v) :
            t \in Names, a \in Names, v \in {NoneNode} \cup LoadNames}
    \cup {Import(<<a>>) : a \in Aliases}
    \cup {Import(<<alias(<<"x", ".", "y">>, None), alias(<<"y">>, "y")>>)}
    \cup {ImportFrom(<<a>>) : a \in FromAliases}
    \cup {ImportFrom(<<alias(<<"x">>, "y"), alias(<<"x">>, None)>>)}
    \cup {Delete(<<Del(n)>>) : n \in Names}
    \cup {Pass}

\* Bodies of functions.
FunctionBodies ==
  {<<Pass>>}
    \cup {<<Return(Load(n))>> : n \in Names}
    \cup {<<Return(Call(Load(n), <<>>))>> : n \in DefNames}
    \cup {<<Assign(<<Store(n)>>, Constant)>> : n \in Names}
    \cup {<<Assign(<<Store(n)>>, Constant), Return(Load(m))>> : n \in Names, m \in Names}
    \cup {<<Expr(ListComp(NamedExpr(Store("y"), Load("x")),
                          <<comprehension(Store("x"), RangeCall, <<>>)>>)),
           Return(Load("y"))>>}

Decorations ==
  {<<d, r>> : d \in {<<>>} \cup {<<e>> : e \in LoadNames},
              r \in {NoneNode} \cup LoadNames}

FunctionDefs ==
  {FunctionDef("f", a, b, <<>>, NoneNode) : a \in ArgSpecs, b \in FunctionBodies}
    \cup {FunctionDef("x", a, <<Pass>>, <<>>, NoneNode) : a \in ArgSpecs}
    \cup {FunctionDef("x", NoArgs, b, <<>>, NoneNode) : b \in FunctionBodies}
    \cup {FunctionDef(f, a, <<Pass>>, dr[1], dr[2]) :
            f \in DefNames, a \in {NoArgs, OneArg("y")}, dr \in Decorations}

AsyncFunctionDefs ==
  {AsyncFunctionDef(f, a, <<Return(Load(n))>>, <<>>, NoneNode) :
     f \in DefNames, n \in Names,
     a \in {s \in ArgSpecs : s.posonlyargs = <<>> /\ s.kwonlyargs = <<>>}}

\* Methods of a class body.
Methods ==
  {FunctionDef(f, a, <<Return(Load(n))>>, <<>>, NoneNode) :
     f \in DefNames, n \in Names, a \in {NoArgs, OneArg("y")}}

ClassBodies ==
  {<<Pass>>}
    \cup {<<Assign(<<Store(n)>>, Constant)>> : n \in Names}
    \cup {<<m>> : m \in Methods}
    \cup {<<Assign(<<Store(n)>>, Constant), m>> : n \in Names, m \in Methods}

ClassDefs ==
  {ClassDef(c, b, body, <<>>) :
     c \in DefNames, b \in {<<>>} \cup {<<e>> : e \in LoadNames}, body \in ClassBodies}
    \cup {ClassDef(c, <<>>, <<Assign(<<Store(n)>>, Constant)>>, <<d>>) :
            c \in DefNames, n \in Names, d \in LoadNames}

Fors ==
  {For(Store(t), i, b, <<>>) :
     t \in Names, i \in LoadNames \cup {RangeCall},
     b \in {<<Pass>>} \cup {<<Expr(e)>> : e \in LoadNames}}

Trys ==
  {Try(<<Pass>>, <<ExceptHandler(t, n, <<Expr(e)>>)>>, <<>>, <<>>) :
     t \in {NoneNode, Load("x")}, n \in {None} \cup Names, e \in LoadNames}

Patterns ==
  {MatchAs(NoneNode, n) : n \in {None} \cup Names}
    \cup {MatchAs(MatchValue(Load(v)), n) : v \in Names, n \in Names}
    \cup {MatchAs(MatchAs(NoneNode, m), n) : m \in Names, n \in Names}
    \cup {MatchSequence(<<MatchAs(NoneNode, "x"), MatchStar(n)>>) :
            n \in {None} \cup Names}
    \cup {MatchMapping(<<k>>, <<MatchAs(NoneNode, p)>>, r) :
            k \in {Constant, Attribute(Load("x"), "a", "Load")},
            p \in Names, r \in {None} \cup Names}

Matches ==
  {Match(Load(s), <<match_case(p, g, <<Expr(Load(e))>>)>>) :
     s \in {"x"}, p \in Patterns, g \in {NoneNode, Load("y")}, e \in Names}

Stmts ==
  SimpleStmts \cup FunctionDefs \cup AsyncFunctionDefs \cup ClassDefs \cup Fors
    \cup Trys \cup Matches

\* Statements put before the statement under analysis.
Before == {Assign(<<Store("x")>>, Constant)}

\* Statements put after it.
After == {Expr(Load(n)) : n \in Names} \cup {Assign(<<Store("x")>>, Constant)}

\* The number of statements before and after it, MaxBody in all at most.
Paddings ==
  {p \in (0..(MaxBody - 1)) \X (0..(MaxBody - 1)) : p[1] + p[2] + 1 <= MaxBody}

\* A function whose body calls n, followed by the definition of the function n.
ForwardCalls ==
  {Module(<<FunctionDef("f", NoArgs, <<Return(Call(Load(n), <<>>))>>, <<>>, NoneNode),
            FunctionDef(n, NoArgs, <<Pass>>, <<>>, NoneNode)>>) : n \in DefNames}

\* t is one of the analysed trees.
IsProgram(t) ==
  \/ \E p \in Paddings :
       \E pre \in SeqsOf(Before, p[1]), s \in Stmts, post \in SeqsOf(After, p[2]) :
         t = Module(pre \o <<s>> \o post)
  \/ t \in ForwardCalls

(***************************************************************************)
(* The specification.                                                      *)
(***************************************************************************)
Init ==
  /\ IsProgram(tree)
  /\ refs = GlobalsVisitor.refs
  /\ scopes = GlobalsVisitor.scopes
  /\ work = <<visit(tree)>>
  /\ pc = "visit"
  /\ results = <<>>

Next ==
  \/ visit_Name
  \/ visit_FunctionDef
  \/ visit_AsyncFunctionDef
  \/ visit_arguments
  \/ visit_arg
  \/ visit_ClassDef
  \/ visit_Lambda
  \/ visit_ListComp
  \/ visit_SetComp
  \/ visit_GeneratorExp
  \/ visit_DictComp
  \/ visit_comprehension
  \/ pop_scope
  \/ visit_Import
  \/ visit_ImportFrom
  \/ visit_Assign
  \/ visit_AugAssign
  \/ visit_AugAssign_target
  \/ visit_NamedExpr
  \/ visit_NamedExpr_target
  \/ visit_AnnAssign
  \/ visit_MatchAs
  \/ visit_MatchStar
  \/ visit_MatchMapping
  \/ visit_MatchMapping_rest
  \/ generic_visit
  \/ Result
  \/ Evaluate

Spec == Init /\ [][Next]_vars

(***************************************************************************)
(* Vocabulary of the properties.                                           *)
(***************************************************************************)
\* The first statement of the module, and whether it is the only one.
First == tree.body[1]
Alone == Len(tree.body) = 1

\* The result pair of the latest finished evaluation.
LastResult == results[Len(results)]

Last(scs) == scs[Len(scs)]

\* The names a target binds: a bare identifier, or the identifiers of a tuple.
StoredNames(t) ==
  IF t.kind = "Name" THEN {t.id}
  ELSE IF t.kind = "Tuple" THEN {t.elts[i].id : i \in 1..Len(t.elts)}
  ELSE {}

TargetNames(ts) == UNION {StoredNames(ts[i]) : i \in 1..Len(ts)}

\* The names an expression loads before it binds anything: the expression
\* itself when it is an identifier, the value of a walrus when it is one.
DirectLoads(e) ==
  IF e.kind = "Name" THEN {e.id}
  ELSE IF e.kind = "NamedExpr" /\ e.value.kind = "Name" THEN {e.value.id}
  ELSE {}

\* The name a walrus expression binds.
WalrusNames(e) == IF e.kind = "NamedExpr" THEN {e.target.id} ELSE {}

FunctionKinds == {"FunctionDef", "AsyncFunctionDef"}
DefKinds == FunctionKinds \cup {"ClassDef"}
CompKinds == {"ListComp", "SetComp", "GeneratorExp", "DictComp"}

(***************************************************************************)
(* C1: plain assignment, value before targets.                             *)
(***************************************************************************)
C1_Step ==
  Visiting("Assign") =>
    /\ work' = <<visit(node.value)>>
                 \o [i \in 1..Len(node.targets) |-> visit(node.targets[i])]
                 \o Tail(work)
    /\ scopes' = scopes
    /\ refs' = refs

C1_Inv ==
  First.kind = "Assign" =>
    /\ TargetNames(First.targets) \cap scopes[1].defs # {}
         => DirectLoads(First.value) \subseteq refs
    /\ pc = "done" =>
         /\ DirectLoads(First.value) \subseteq refs
         /\ TargetNames(First.targets) \subseteq scopes[1].defs
    /\ pc = "done" /\ Alone /\ First.value.kind \in {"Name", "Constant", "NamedExpr"} =>
         LastResult = <<DirectLoads(First.value) \ builtin_names,
                        TargetNames(First.targets) \cup WalrusNames(First.value)>>

\* C1: when an assignment is visited its value is visited first and its
\* targets after it, in order, and nothing is defined meanwhile; so in a
\* module that starts with an assignment, as soon as a target of it is
\* defined the names its value loads are in refs, and `x = x` alone yields
\* the free references {x} and the top-level definitions {x}.
C1_ValueBeforeTargets == [][C1_Step]_vars /\ []C1_Inv

\* `x = x` alone has been analysed: x is free and x is defined.
C1_Witness ==
  /\ tree = Module(<<Assign(<<Store("x")>>, Load("x"))>>)
  /\ pc = "done"
  /\ LastResult = <<{"x"}, {"x"}>>

(***************************************************************************)
(* C2: a load is free iff no frame of the stack defines it.                *)
(***************************************************************************)
\* A load is about to be checked: a Name in load context, or the bare
\* identifier target of an augmented assignment.
LoadStep ==
  /\ pc = "visit"
  /\ work # <<>>
  /\ \/ Head(work).op = "visit" /\ node.kind = "Name" /\ node.ctx = "Load"
     \/ Head(work).op = "AugAssign_target" /\ node.target.kind = "Name"

LoadId == IF Head(work).op = "visit" THEN node.id ELSE node.target.id

C2_Step ==
  LoadStep =>
    refs' = IF \E i \in 1..Len(scopes) : LoadId \in scopes[i].defs
              THEN refs
              ELSE refs \cup {LoadId}

\* A class whose body binds n and then defines a method that returns n.
ClassAttributeRead(n) ==
  /\ First.kind = "ClassDef"
  /\ Len(First.body) = 2
  /\ First.body[1] = Assign(<<Store(n)>>, Constant)
  /\ First.body[2].kind = "FunctionDef"
  /\ First.body[2].body = <<Return(Load(n))>>
  /\ First.decorator_list = <<>>
  /\ First.bases = <<>>

C2_Inv ==
  \A n \in Names :
    ClassAttributeRead(n) /\ Alone /\ pc = "done" => n \notin refs

\* C2: the step that checks a load of n leaves refs as it is when some frame
\* of the stack, at any depth, defines n, and adds n to refs otherwise; a
\* name bound in a class body satisfies a load in a method of the class.
C2_FreeIffNoFrameDefines == [][C2_Step]_vars /\ []C2_Inv

\* A class f that binds x and whose method f() returns x has been analysed
\* alone: the global frame defines f only, the method has no parameter, and
\* the load of x in the method, satisfied by the class frame, is not free.
C2_Witness ==
  /\ ClassAttributeRead("x")
  /\ First.name = "f"
  /\ First.body[2].name = "f"
  /\ First.body[2].args = NoArgs
  /\ Alone
  /\ pc = "done"
  /\ LastResult = <<{}, {"f"}>>

(***************************************************************************)
(* C3: a definition's own name goes to the enclosing frame, first.         *)
(***************************************************************************)
C3_Step ==
  (\E k \in DefKinds : Visiting(k)) =>
    /\ scopes' = Append([scopes EXCEPT ![Len(scopes)].defs = @ \cup {node.name}],
                        [defs |-> {}, is_comprehension |-> FALSE])
    /\ refs' = refs

\* The index in scopes of the frame that the continuation work[i] will pop.
FrameOf(i) == 1 + Cardinality({j \in i..Len(work) : work[j].op = "_pop_scope"})

C3_Inv ==
  /\ \A i \in 1..Len(work) :
       work[i].op = "_pop_scope" /\ work[i].node.kind \in DefKinds =>
         work[i].node.name \in scopes[FrameOf(i) - 1].defs
  /\ First.kind \in DefKinds =>
       /\ First.name \notin refs
       /\ pc = "done" => First.name \in scopes[1].defs
  /\ pc = "done" /\ Alone /\ First.kind \in FunctionKinds
       /\ First.body = <<Return(Call(Load(First.name), <<>>))>>
       /\ First.args = NoArgs /\ First.decorator_list = <<>>
       /\ First.returns = NoneNode
       => LastResult = <<{}, {First.name}>>

\* C3: the step that visits a function, async function or class definition
\* adds the definition's name to the frame on top and then pushes an empty
\* frame, before any child is visited; while the definition is traversed its
\* name is in the frame under its own frame, so `def f(): return f()` alone
\* yields no free reference and the top-level definitions {f}.
C3_OwnNameInEnclosingFrame == [][C3_Step]_vars /\ []C3_Inv

\* `def f(): return f()` alone has been analysed.
C3_Witness ==
  /\ tree = Module(<<FunctionDef("f", NoArgs, <<Return(Call(Load("f"), <<>>))>>,
                                 <<>>, NoneNode)>>)
  /\ pc = "done"
  /\ LastResult = <<{}, {"f"}>>

(***************************************************************************)
(* C4: default values before parameter names.                              *)
(***************************************************************************)
ArgNames(as) == {as[i].arg : i \in 1..Len(as)}

\* The parameter names of a parameter list.
ParamNames(a) ==
  ArgNames(a.posonlyargs) \cup ArgNames(a.args) \cup ArgNames(a.kwonlyargs)
    \cup (IF a.vararg = NoneNode THEN {} ELSE {a.vararg.arg})
    \cup (IF a.kwarg = NoneNode THEN {} ELSE {a.kwarg.arg})

NumParams(a) ==
  Len(a.posonlyargs) + Len(a.args) + Len(a.kwonlyargs)
    + (IF a.vararg = NoneNode THEN 0 ELSE 1) + (IF a.kwarg = NoneNode THEN 0 ELSE 1)

\* The names its default values load.
DefaultLoads(a) ==
  {d.id : d \in {e \in {a.defaults[i] : i \in 1..Len(a.defaults)}
                         \cup {a.kw_defaults[i] : i \in 1..Len(a.kw_defaults)} :
                   e.kind = "Name"}}

C4_Step ==
  Visiting("arguments") =>
    /\ \E k \in 0..Len(work') :
         /\ k <= Len(node.defaults) + Len(node.kw_defaults)
         /\ \A i \in 1..k : work'[i].op = "visit" /\ work'[i].node.kind # "arg"
         /\ {work'[i].node : i \in 1..k}
              = ({node.defaults[i] : i \in 1..Len(node.defaults)}
                   \cup {node.kw_defaults[i] : i \in 1..Len(node.kw_defaults)})
                  \ {NoneNode}
         /\ Len(work') = k + NumParams(node) + Len(work) - 1
         /\ \A i \in (k + 1)..(k + NumParams(node)) :
              work'[i].op = "visit" /\ work'[i].node.kind = "arg"
    /\ scopes' = scopes
    /\ refs' = refs

\* The module starts with a function definition or with a lambda expression.
FirstIsFunction ==
  \/ First.kind \in FunctionKinds
  \/ First.kind = "Expr" /\ First.value.kind = "Lambda"

FirstArgs == IF First.kind = "Expr" THEN First.value.args ELSE First.args

FirstOwnName == IF First.kind = "Expr" THEN {} ELSE {First.name}

C4_Inv ==
  /\ FirstIsFunction =>
       /\ Len(scopes) >= 2 /\ ParamNames(FirstArgs) \cap scopes[2].defs # {}
            => DefaultLoads(FirstArgs) \ FirstOwnName \subseteq refs
       /\ pc = "done" => DefaultLoads(FirstArgs) \ FirstOwnName \subseteq refs
  /\ pc = "done" /\ Alone /\ First.kind \in FunctionKinds
       /\ First.body = <<Pass>> /\ First.decorator_list = <<>>
       /\ First.returns = NoneNode
       => LastResult = <<DefaultLoads(First.args) \ {First.name}, {First.name}>>

\* C4: visiting a parameter list schedules its default values, positional
\* and keyword, ahead of every parameter name and defines nothing itself;
\* so in a module that starts with a function or lambda, once a parameter is
\* defined the names loaded by the defaults are in refs (the function's own
\* name apart, which the enclosing frame defines), and `def f(x=y): pass`
\* alone yields the free references {y}, without x.
C4_DefaultsBeforeParams == [][C4_Step]_vars /\ []C4_Inv

\* `def f(x=x): pass` alone has been analysed: the default x is free although
\* the parameter is x.
C4_Witness ==
  /\ tree = Module(<<FunctionDef("f",
                       arguments(<<>>, <<arg("x", NoneNode)>>, NoneNode, <<>>, <<>>,
                                 NoneNode, <<Load("x")>>),
                       <<Pass>>, <<>>, NoneNode)>>)
  /\ pc = "done"
  /\ LastResult = <<{"x"}, {"f"}>>

(***************************************************************************)
(* C5: comprehension targets live in the comprehension's frame only.       *)
(***************************************************************************)
\* The module starts with an expression statement that is a comprehension.
FirstIsComp == First.kind = "Expr" /\ First.value.kind \in CompKinds

Comp == First.value

CompTargets(c) ==
  UNION {StoredNames(c.generators[i].target) : i \in 1..Len(c.generators)}

\* The names the iterables of its clauses load.
IterLoads(c) ==
  {c.generators[i].iter.id :
     i \in {j \in 1..Len(c.generators) : c.generators[j].iter.kind = "Name"}}

\* Its filters and its result expressions.
CompParts(c) ==
  (IF c.kind = "DictComp" THEN {c.key, c.value} ELSE {c.elt})
    \cup UNION {{c.generators[i].ifs[j] : j \in 1..Len(c.generators[i].ifs)} :
                  i \in 1..Len(c.generators)}

\* A comprehension whose filters and result expressions are bare loads.
PlainComp(c) == \A e \in CompParts(c) : e.kind = "Name"

PartLoads(c) == {e.id : e \in CompParts(c)}

C5_Inv ==
  FirstIsComp /\ PlainComp(Comp) =>
    /\ (\A i \in 2..Len(tree.body) : tree.body[i].kind = "Expr")
         => CompTargets(Comp) \cap scopes[1].defs = {}
    /\ Len(scopes) >= 2 =>
         /\ Len(scopes) = 2
         /\ scopes[2].is_comprehension
         /\ scopes[2].defs \subseteq CompTargets(Comp)
         /\ scopes[1].defs = {}
    /\ pc = "done" /\ Alone =>
         /\ ((PartLoads(Comp) \cap CompTargets(Comp)) \ IterLoads(Comp)) \cap refs = {}
         /\ LastResult[2] = {}
    /\ pc = "done" /\ Len(tree.body) >= 2 /\ tree.body[2].kind = "Expr"
         /\ tree.body[2].value.id \in CompTargets(Comp)
         => tree.body[2].value.id \in refs

\* C5: in a module that starts with a list, set, generator or dict
\* comprehension of bare identifiers, the iteration targets are defined in the
\* one comprehension frame and never in the global frame, a load of a target
\* in a filter or in the result expression is not free, a load of a target in
\* a later statement is free, and `[x for x in range(3)]` alone yields no free
\* reference and no top-level definition.
C5_TargetsStayInComprehension ==
  /\ C5_Inv
  /\ tree = Module(<<Expr(ListComp(Load("x"),
                                   <<comprehension(Store("x"), RangeCall, <<>>)>>))>>)
       /\ pc = "done"
       => LastResult = <<{}, {}>>

\* `[x for x in range(3)]` followed by a load of x has been analysed: the
\* load inside is satisfied, the load after is free, nothing is defined.
C5_Witness ==
  /\ tree = Module(<<Expr(ListComp(Load("x"),
                                   <<comprehension(Store("x"), RangeCall, <<>>)>>)),
                     Expr(Load("x"))>>)
  /\ pc = "done"
  /\ LastResult = <<{"x"}, {}>>

(***************************************************************************)
(* C6: a walrus in a comprehension binds in the nearest other frame.       *)
(***************************************************************************)
C6_Step ==
  Resuming("NamedExpr_target") /\ Last(scopes).is_comprehension
    /\ node.target.kind = "Name" =>
    /\ \E i \in 1..Len(scopes) :
         /\ ~scopes[i].is_comprehension
         /\ \A j \in (i + 1)..Len(scopes) : scopes[j].is_comprehension
         /\ scopes' = [scopes EXCEPT ![i].defs = @ \cup {node.target.id}]
    /\ refs' = refs

\* [y := x for x in range(3)]
WalrusComp ==
  ListComp(NamedExpr(Store("y"), Load("x")),
           <<comprehension(Store("x"), RangeCall, <<>>)>>)

\* The walrus targets of a comprehension that are bound while a comprehension
\* frame is on top: in its result expression, in a filter, or in the result
\* expression of a comprehension that is its result expression.
LeakNames(c) ==
  UNION {IF e.kind = "NamedExpr" THEN {e.target.id}
         ELSE IF e.kind = "ListComp" /\ e.elt.kind = "NamedExpr"
           THEN {e.elt.target.id}
         ELSE {} : e \in CompParts(c)}

C6_Inv ==
  /\ FirstIsComp /\ pc = "done" =>
       /\ LeakNames(Comp) \subseteq scopes[1].defs
       /\ Len(scopes) = 1
  /\ First = Expr(WalrusComp) /\ Alone /\ pc = "done" => LastResult = <<{}, {"y"}>>
  /\ First.kind = "FunctionDef" /\ First.body = <<Expr(WalrusComp), Return(Load("y"))>>
       /\ "y" \notin DefaultLoads(First.args) /\ Alone /\ pc = "done"
       => "y" \notin scopes[1].defs /\ "y" \notin refs

\* C6: the step that binds the bare target of a walrus while a comprehension
\* frame is on top adds the target to the top-most frame that is not a
\* comprehension frame and changes no other frame; so the target of
\* `[y := x for x in range(3)]` is a top-level definition when the module
\* has been analysed, and inside a function it is a definition of the function.
C6_WalrusLeaksToNearestScope == [][C6_Step]_vars /\ []C6_Inv

\* A walrus inside a comprehension nested in a comprehension has been
\* analysed: y is defined at top level.
C6_Witness ==
  /\ tree = Module(<<Expr(ListComp(WalrusComp,
                                   <<comprehension(Store("x"), RangeCall, <<>>)>>))>>)
  /\ pc = "done"
  /\ LastResult = <<{}, {"y"}>>

(***************************************************************************)
(* C7: augmented assignment loads its target, then stores it.              *)
(***************************************************************************)
C7_Step ==
  /\ Visiting("AugAssign") =>
       /\ Head(work') = visit(node.value)
       /\ work'[2] = Continue("AugAssign_target", node)
       /\ scopes' = scopes
       /\ refs' = refs
  /\ Resuming("AugAssign_target") /\ node.target.kind = "Name" =>
       /\ refs' = IF \E i \in 1..Len(scopes) : node.target.id \in scopes[i].defs
                    THEN refs
                    ELSE refs \cup {node.target.id}
       /\ scopes' = scopes
       /\ Head(work') = visit(node.target)

C7_Inv ==
  First.kind = "AugAssign" /\ First.target.kind = "Name" =>
    /\ First.target.id \in scopes[1].defs /\ First.target.id \notin WalrusNames(First.value)
         => First.target.id \in refs /\ DirectLoads(First.value) \subseteq refs
    /\ pc = "done" /\ Alone =>
         LastResult =
           <<(DirectLoads(First.value)
                \cup ({First.target.id} \ WalrusNames(First.value))) \ builtin_names,
             {First.target.id} \cup WalrusNames(First.value)>>

\* C7: an augmented assignment visits its value first; then the step that
\* handles a bare identifier target adds it to refs unless a frame defines
\* it, defines nothing, and leaves the store of the target to the next step;
\* so `x += 1` alone yields the free references {x} and the top-level
\* definitions {x}.
C7_AugAssignLoadsThenStores == [][C7_Step]_vars /\ []C7_Inv

\* `x += 1` alone has been analysed.
C7_Witness ==
  /\ tree = Module(<<AugAssign(Store("x"), Constant)>>)
  /\ pc = "done"
  /\ LastResult = <<{"x"}, {"x"}>>

(***************************************************************************)
(* C8: what an import binds.                                               *)
(***************************************************************************)
\* The characters of a dotted path before its first dot.
FirstSegment(name) ==
  CHOOSE seg \in {SubSeq(name, 1, k) : k \in 0..Len(name)} :
    /\ \A j \in 1..Len(seg) : seg[j] # "."
    /\ Len(seg) = Len(name) \/ name[Len(seg) + 1] = "."

\* The name the claim says an alias binds.
Bound(kind, a) ==
  IF a.asname # None THEN a.asname
  ELSE IF kind = "Import" THEN str(FirstSegment(a.name))
  ELSE str(a.name)

C8_Step ==
  Visiting("Import") \/ Visiting("ImportFrom") =>
    /\ refs' = refs
    /\ scopes' = [scopes EXCEPT ![Len(scopes)].defs =
                    @ \cup {Bound(node.kind, node.names[i]) : i \in 1..Len(node.names)}]

C8_Inv ==
  /\ tree = Module(<<Import(<<alias(<<"y", ".", "x", ".", "x">>, "x")>>)>>)
       /\ pc = "done" => LastResult = <<{}, {"x"}>>
  /\ tree = Module(<<Import(<<alias(<<"y", ".", "x", ".", "x">>, None)>>)>>)
       /\ pc = "done" => LastResult = <<{}, {"y"}>>
  /\ tree = Module(<<Import(<<alias(<<"x", "y", ".", "x">>, None)>>)>>)
       /\ pc = "done" => LastResult = <<{}, {"xy"}>>
  /\ First.kind \in {"Import", "ImportFrom"} /\ pc = "done" /\ Alone =>
       /\ Cardinality(scopes[1].defs) <= Len(First.names)
       /\ LastResult[1] = {}

\* C8: the step that visits an import statement leaves refs alone and adds
\* to the top frame, for each alias, the alias name if one is given and
\* otherwise the first segment of the dotted path (plain import) or the
\* imported name (from-import), and nothing else; `import y.x.x as x`
\* defines only x and `import y.x.x` defines only y.
C8_ImportBindsOneName == [][C8_Step]_vars /\ []C8_Inv

\* `import y.x.x` alone has been analysed: only y is defined.
C8_Witness ==
  /\ tree = Module(<<Import(<<alias(<<"y", ".", "x", ".", "x">>, None)>>)>>)
  /\ pc = "done"
  /\ scopes[1].defs = {"y"}
  /\ refs = {}

(***************************************************************************)
(* C9: the result pair.                                                    *)
(***************************************************************************)
\* C9: every result pair holds no builtin name in its first component, and
\* the pair of a finished evaluation is the names of refs that are not
\* builtin names together with the defined set of the global frame, builtin
\* names included.
C9_ResultPair ==
  /\ \A k \in 1..Len(results) : results[k][1] \cap builtin_names = {}
  /\ pc = "done" =>
       /\ LastResult[1] = {n \in refs : n \notin builtin_names}
       /\ LastResult[2] = scopes[1].defs
       /\ Len(scopes) = 1

\* `range = range` alone has been analysed: range is in refs and is not
\* reported free, and it is reported as a top-level definition.
C9_Witness ==
  /\ tree = Module(<<Assign(<<Store("range")>>, Load("range"))>>)
  /\ pc = "done"
  /\ "range" \in refs
  /\ LastResult = <<{}, {"range"}>>

(***************************************************************************)
(* C10: evaluations of the same tree agree.                                *)
(***************************************************************************)
C10_Step ==
  /\ tree' = tree
  /\ pc = "done" /\ pc' = "visit" =>
       /\ refs' = {}
       /\ scopes' = <<[defs |-> {}, is_comprehension |-> FALSE]>>
       /\ work' = <<visit(tree)>>

\* C10: the tree is never changed, every further evaluation starts with
\* empty refs and one empty global frame, and all evaluations of the tree
\* yield the same result pair.
C10_Idempotent ==
  /\ [][C10_Step]_vars
  /\ [](\A i \in 1..Len(results) : \A j \in 1..Len(results) : results[i] = results[j])

\* Two evaluations of a tree with a free reference and a top-level
\* definition have finished with the same pair.
C10_Witness ==
  /\ Len(results) >= 2
  /\ results[1] = results[2]
  /\ results[1][1] # {}
  /\ results[1][2] # {}

(***************************************************************************)
(* C11: the scope stack mirrors the constructs around the position.        *)
(***************************************************************************)
\* Every AST child of a node, in the order of the node class's _fields.
AstChildren(n) ==
  SelectSeq(
    CASE n.kind = "arguments" ->
           n.posonlyargs \o n.args \o <<n.vararg>> \o n.kwonlyargs \o n.kw_defaults
             \o <<n.kwarg>> \o n.defaults
      [] n.kind = "arg" -> <<n.annotation>>
      [] n.kind \in {"ListComp", "SetComp", "GeneratorExp"} -> <<n.elt>> \o n.generators
      [] n.kind = "DictComp" -> <<n.key, n.value>> \o n.generators
      [] n.kind = "comprehension" -> <<n.target, n.iter>> \o n.ifs
      [] n.kind = "Assign" -> n.targets \o <<n.value>>
      [] n.kind \in {"AugAssign", "NamedExpr"} -> <<n.target, n.value>>
      [] n.kind = "AnnAssign" -> <<n.target, n.annotation, n.value>>
      [] n.kind = "MatchAs" -> <<n.pattern>>
      [] n.kind = "MatchMapping" -> n.keys \o n.patterns
      [] n.kind \in {"Import", "ImportFrom"} -> n.names
      [] OTHER -> Fields(n),
    LAMBDA c : c # NoneNode)

\* The constructs that introduce a scope.
ScopeKinds == {"FunctionDef", "AsyncFunctionDef", "ClassDef", "Lambda"} \cup CompKinds

\* The frame flags of a construct: none if it introduces no scope.
OwnFrame(n) ==
  IF n.kind \in ScopeKinds THEN <<n.kind \in CompKinds>> ELSE <<>>

RECURSIVE EnclosingFrames(_, _)
\* For each occurrence of the node target under the node n, the
\* is_comprehension flags of the scope-introducing constructs that enclose
\* the occurrence, n included, outermost first.
EnclosingFrames(n, target) ==
  (IF n = target THEN {<<>>} ELSE {})
    \cup {OwnFrame(n) \o c :
            c \in UNION {EnclosingFrames(AstChildren(n)[i], target) :
                           i \in 1..Len(AstChildren(n))}}

\* The is_comprehension flags of the frames above the global one.
FrameFlags(scs) == [i \in 1..(Len(scs) - 1) |-> scs[i + 1].is_comprehension]

C11_Inv ==
  /\ Len(scopes) >= 1
  /\ ~scopes[1].is_comprehension
  /\ work = <<>> => Len(scopes) = 1
  /\ pc = "visit" /\ work # <<>> =>
       IF Head(work).op = "_pop_scope"
         THEN \E c \in EnclosingFrames(tree, node) : FrameFlags(scopes) = c \o OwnFrame(node)
         ELSE FrameFlags(scopes) \in EnclosingFrames(tree, node)
  /\ Len(scopes) =
       1 + Cardinality({i \in 1..Len(work) : work[i].op = "_pop_scope"})

C11_Step ==
  /\ ~(pc = "done" /\ pc' = "visit") =>
       \/ FrameFlags(scopes') = FrameFlags(scopes)
       \/ /\ \E k \in ScopeKinds : Visiting(k)
          /\ FrameFlags(scopes') = FrameFlags(scopes) \o OwnFrame(node)
       \/ /\ Resuming("_pop_scope")
          /\ FrameFlags(scopes) = FrameFlags(scopes') \o OwnFrame(node)
  /\ (\E k \in ScopeKinds : Visiting(k)) => Len(scopes') = Len(scopes) + 1
  /\ Resuming("_pop_scope") => Len(scopes') = Len(scopes) - 1

StmtBinds(s) ==
  IF s.kind = "Assign" THEN TargetNames(s.targets)
  ELSE IF s.kind \in DefKinds THEN {s.name}
  ELSE IF s.kind = "Expr" /\ s.value.kind \in CompKinds \ {"DictComp"}
    THEN WalrusNames(s.value.elt)
  ELSE {}

BodyBinds(body) == UNION {StmtBinds(body[i]) : i \in 1..Len(body)}

\* The first statement is a function, a class or a lambda expression.
FirstIsScope ==
  \/ First.kind \in DefKinds
  \/ First.kind = "Expr" /\ First.value.kind = "Lambda"

\* The names defined in the frame of the first statement.
InnerDefs ==
  IF First.kind \in FunctionKinds THEN ParamNames(First.args) \cup BodyBinds(First.body)
  ELSE IF First.kind = "ClassDef" THEN BodyBinds(First.body)
  ELSE ParamNames(First.value.args)

\* n is defined in the frame of the first statement and nowhere at top level.
DefinedOnlyInside(n) ==
  /\ FirstIsScope
  /\ n \in InnerDefs
  /\ n \notin BodyBinds(tree.body)

C12_Step ==
  Resuming("_pop_scope") /\ node.kind \notin CompKinds =>
    /\ scopes' = SubSeq(scopes, 1, Len(scopes) - 1)
    /\ refs' = refs

C12_Inv ==
  /\ \A n \in AllNames :
       DefinedOnlyInside(n) =>
         /\ n \notin scopes[1].defs
         /\ pc = "done" /\ (\E i \in 2..Len(tree.body) : tree.body[i] = Expr(Load(n)))
              => n \in refs
  /\ pc = "done"
       /\ tree = Module(<<FunctionDef("f", NoArgs, <<Assign(<<Store("y")>>, Constant)>>,
                                      <<>>, NoneNode),
                          Expr(Load("y"))>>)
       => LastResult = <<{"y"}, {"f"}>>

\* C12: leaving a function, class or lambda removes its frame and leaves the
\* frames under it and refs as they are; a name defined only in the frame of
\* a top-level function, class or lambda is never among the top-level
\* definitions, and a top-level load of it after the construct is reported
\* free: `def f(): y = 1` followed by a load of y yields ({y}, {f}).
C12_InnerDefsDiscarded == [][C12_Step]_vars /\ []C12_Inv

\* `def f(): y = 1` followed by a load of y has been analysed.
C12_Witness ==
  /\ pc = "done"
  /\ tree = Module(<<FunctionDef("f", NoArgs, <<Assign(<<Store("y")>>, Constant)>>,
                                 <<>>, NoneNode),
                     Expr(Load("y"))>>)
  /\ LastResult = <<{"y"}, {"f"}>>

(***************************************************************************)
(* C13: refs only grows during a traversal.                                *)
(***************************************************************************)
\* A step of one traversal: any step but the start of the next evaluation.
SameTraversal == ~(pc = "done" /\ pc' = "visit")

C13_Step == SameTraversal => refs \subseteq refs'

\* A load of x followed by `x = 1`.
LoadThenAssign ==
  tree = Module(<<Expr(Load("x")), Assign(<<Store("x")>>, Constant)>>)

\* `def f(): return x()` followed by `def x(): pass`.
CallThenDef ==
  tree = Module(<<FunctionDef("f", NoArgs, <<Return(Call(Load("x"), <<>>))>>,
                              <<>>, NoneNode),
                  FunctionDef("x", NoArgs, <<Pass>>, <<>>, NoneNode)>>)

C13_Inv ==
  /\ pc = "done" /\ LoadThenAssign => LastResult = <<{"x"}, {"x"}>>
  /\ pc = "done" /\ CallThenDef => LastResult = <<{"x"}, {"f", "x"}>>
  /\ \A n \in Names :
       pc = "done" /\ First = Expr(Load(n)) => n \in LastResult[1]

\* C13: no step of a traversal removes a name from refs; a name loaded
\* before it is defined stays reported: a load of x followed by `x = 1`
\* yields ({x}, {x}), and a function that calls x, followed by the
\* definition of the function x, yields the free reference x.
C13_RefsOnlyGrow == [][C13_Step]_vars /\ []C13_Inv

\* The function x has been defined after the function whose body called it,
\* and x is still reported free.
C13_Witness ==
  /\ pc = "done"
  /\ CallThenDef
  /\ LastResult = <<{"x"}, {"f", "x"}>>

(***************************************************************************)
(* C14: a binding touches one frame, a load touches refs only.             *)
(***************************************************************************)
\* The step about to be taken binds names: a stored identifier, a parameter,
\* the name of a definition, the aliases of an import, the target of a
\* walrus in a comprehension, or the name of a match pattern.
BindingStep ==
  /\ pc = "visit"
  /\ work # <<>>
  /\ \/ Head(work).op = "visit" /\ node.kind = "Name" /\ node.ctx = "Store"
     \/ Head(work).op = "visit" /\ node.kind \in {"arg", "Import", "ImportFrom"} \cup DefKinds
     \/ Head(work).op = "visit" /\ node.kind \in {"MatchAs", "MatchStar"} /\ node.name # None
     \/ Head(work).op = "MatchMapping_rest" /\ node.rest # None
     \/ /\ Head(work).op = "NamedExpr_target"
        /\ node.target.kind = "Name"
        /\ Last(scopes).is_comprehension

\* The names a binding step binds.
StepBinds ==
  IF Head(work).op = "MatchMapping_rest" THEN {node.rest}
  ELSE IF Head(work).op = "NamedExpr_target" THEN {node.target.id}
  ELSE IF node.kind = "Name" THEN {node.id}
  ELSE IF node.kind = "arg" THEN {node.arg}
  ELSE IF node.kind \in {"Import", "ImportFrom"}
    THEN {Bound(node.kind, node.names[i]) : i \in 1..Len(node.names)}
  ELSE {node.name}

\* The frames of scs1 are those of scs but for frame i, which gained names.
OnlyFrameGains(scs, scs1, i, names) ==
  /\ Len(scs1) >= Len(scs)
  /\ scs1[i] = [scs[i] EXCEPT !.defs = @ \cup names]
  /\ \A j \in 1..Len(scs) : j # i => scs1[j] = scs[j]
  /\ \A j \in (Len(scs) + 1)..Len(scs1) : scs1[j].defs = {}

C14_Step ==
  /\ BindingStep =>
       /\ refs' = refs
       /\ \E i \in 1..Len(scopes) : OnlyFrameGains(scopes, scopes', i, StepBinds)
  /\ LoadStep => scopes' = scopes

C14_Inv ==
  pc = "done" /\ tree = Module(<<Assign(<<Store("x")>>, Load("y"))>>)
    => LastResult = <<{"y"}, {"x"}>>

\* C14: a step that binds names leaves refs as it is and adds the names to
\* the defined set of one frame of the stack, every other frame staying as
\* it was (a definition also pushes its own, empty, frame); a step that
\* checks a load leaves the whole stack as it is. `x = y` alone yields
\* ({y}, {x}).
C14_BindingTouchesOneFrame == [][C14_Step]_vars /\ []C14_Inv

\* `x = y` alone has been analysed: the load went to refs, the store to the
\* global frame.
C14_Witness ==
  /\ pc = "done"
  /\ tree = Module(<<Assign(<<Store("x")>>, Load("y"))>>)
  /\ LastResult = <<{"y"}, {"x"}>>

(***************************************************************************)
(* C15: the order inside a comprehension.                                  *)
(***************************************************************************)
\* The targets of the first k clauses of a comprehension.
TargetsUpTo(c, k) ==
  UNION {StoredNames(c.generators[i].target) : i \in 1..k}

\* The names the iterable of a clause loads: an identifier, or the function
\* of a call with a constant argument.
IterNames(g) == IF g.iter.kind = "Name" THEN {g.iter.id} ELSE {g.iter.func.id}

FilterNames(g) == {g.ifs[j].id : j \in 1..Len(g.ifs)}

ResultNames(c) == IF c.kind = "DictComp" THEN {c.key.id, c.value.id} ELSE {c.elt.id}

\* The free references of a comprehension whose filters and result
\* expressions are bare loads, when each iterable sees the targets of the
\* clauses before its own, each filter those up to its own clause, and the
\* result expressions see them all.
ExpectedFree(c) ==
  UNION {IterNames(c.generators[k]) \ TargetsUpTo(c, k - 1) : k \in 1..Len(c.generators)}
    \cup UNION {FilterNames(c.generators[k]) \ TargetsUpTo(c, k) :
                  k \in 1..Len(c.generators)}
    \cup (ResultNames(c) \ TargetsUpTo(c, Len(c.generators)))

C15_Step ==
  /\ Visiting("comprehension") =>
       /\ work' = <<visit(node.iter), visit(node.target)>>
                    \o [j \in 1..Len(node.ifs) |-> visit(node.ifs[j])] \o Tail(work)
       /\ scopes' = scopes
       /\ refs' = refs
  /\ (\E k \in CompKinds : Visiting(k)) =>
       work' = [i \in 1..Len(node.generators) |-> visit(node.generators[i])]
                 \o (IF node.kind = "DictComp"
                       THEN <<visit(node.key), visit(node.value)>>
                       ELSE <<visit(node.elt)>>)
                 \o <<Continue("_pop_scope", node)>> \o Tail(work)

C15_Inv ==
  /\ FirstIsComp /\ PlainComp(Comp) /\ Alone /\ pc = "done" =>
       LastResult = <<ExpectedFree(Comp) \ builtin_names, {}>>
  /\ pc = "done"
       /\ tree = Module(<<Expr(ListComp(Load("x"),
                                        <<comprehension(Store("x"), Load("x"), <<>>)>>))>>)
       => LastResult = <<{"x"}, {}>>

\* C15: a clause of a comprehension is visited iterable first, then target,
\* then filters, and all clauses are visited, in order, before the result
\* expression (the key then the value for a dict comprehension); so the
\* iterable of a clause is satisfied by the targets of the clauses before it
\* but not by its own, a filter by the targets up to its own clause, and the
\* result expression by every target: `[x for x in x]` reports x free.
C15_ComprehensionOrder == [][C15_Step]_vars /\ []C15_Inv

\* `[y for x in y for y in x]` alone has been analysed: the first iterable
\* y is free, the second iterable x is satisfied by the first target, and
\* the result y by the second target.
C15_Witness ==
  /\ pc = "done"
  /\ tree = Module(<<Expr(ListComp(Load("y"),
                                   <<comprehension(Store("x"), Load("y"), <<>>),
                                     comprehension(Store("y"), Load("x"), <<>>)>>))>>)
  /\ LastResult = <<{"y"}, {}>>

(***************************************************************************)
(* C16: every load in the tree is checked, annotations included.           *)
(***************************************************************************)
\* The names a node binds by itself, whatever the visitor does with it.
OwnBinds(n) ==
  IF n.kind = "Name" THEN (IF n.ctx = "Load" THEN {} ELSE {n.id})
  ELSE IF n.kind = "arg" THEN {n.arg}
  ELSE IF n.kind \in DefKinds THEN {n.name}
  ELSE IF n.kind \in {"Import", "ImportFrom"}
    THEN {Bound(n.kind, n.names[i]) : i \in 1..Len(n.names)}
  ELSE IF n.kind \in {"MatchAs", "MatchStar", "ExceptHandler"} THEN {n.name} \ {None}
  ELSE IF n.kind = "MatchMapping" THEN {n.rest} \ {None}
  ELSE {}

RECURSIVE BoundIds(_)
\* The names bound anywhere in the tree under n.
BoundIds(n) ==
  OwnBinds(n) \cup UNION {BoundIds(AstChildren(n)[i]) : i \in 1..Len(AstChildren(n))}

RECURSIVE LoadIds(_)
\* The identifiers in load context anywhere in the tree under n.
LoadIds(n) ==
  (IF n.kind = "Name" /\ n.ctx = "Load" THEN {n.id} ELSE {})
    \cup UNION {LoadIds(AstChildren(n)[i]) : i \in 1..Len(AstChildren(n))}

\* C16: every identifier in load context anywhere in the tree, the
\* annotation of a parameter and of an annotated assignment included, is
\* checked against the scope stack: when the traversal has ended, a name
\* that the tree loads and binds nowhere, which no frame can have defined,
\* is in refs.
C16_EveryLoadChecked ==
  pc = "done" => \A n \in LoadIds(tree) \ BoundIds(tree) : n \in refs

\* `def f(x: y): pass` alone has been analysed: the annotation y was never
\* visited and is not reported free.
C16_Witness ==
  /\ pc = "done"
  /\ tree = Module(<<FunctionDef("f", arguments(<<>>, <<arg("x", Load("y"))>>, NoneNode, <<>>, <<>>,
                                           NoneNode, <<>>),
                                 <<Pass>>, <<>>, NoneNode)>>)
  /\ LastResult = <<{}, {"f"}>>

(***************************************************************************)
(* C17: decorators and return annotations are outside the frame.           *)
(***************************************************************************)
\* The identifiers loaded by the decorators of the first statement and, for
\* a function, by its return annotation.
OuterLoads ==
  {First.decorator_list[i].id : i \in 1..Len(First.decorator_list)}
    \cup (IF First.kind \in FunctionKinds /\ First.returns # NoneNode
            THEN {First.returns.id}
            ELSE {})

\* C17: a load in a decorator or in the return annotation of a top-level
\* function, or in a decorator of a top-level class, is checked without the
\* frame of that definition: when the name it loads is defined only as a
\* parameter or in the body of the definition, it is reported free.
C17_DecoratorsOutsideFrame ==
  pc = "done" /\ First.kind \in DefKinds =>
    \A n \in OuterLoads : DefinedOnlyInside(n) => n \in refs

\* `@y def f(y): pass` alone has been analysed: the decorator y was checked
\* with the frame of f on the stack, where the parameter y is defined, and
\* is not reported free.
C17_Witness ==
  /\ pc = "done"
  /\ tree = Module(<<FunctionDef("f", OneArg("y"), <<Pass>>, <<Load("y")>>, NoneNode)>>)
  /\ LastResult = <<{}, {"f"}>>

(***************************************************************************)
(* C18: node kinds without a handler.                                      *)
(***************************************************************************)
\* A node of a class without a visit_ method is about to be visited.
GenericStep ==
  /\ pc = "visit"
  /\ work # <<>>
  /\ Head(work).op = "visit"
  /\ node.kind \notin Handled

\* The children of such a node in the order of the grammar, None left out.
GrammarOrder(n) ==
  SelectSeq(
    CASE n.kind = "For" -> <<n.target, n.iter>> \o n.body \o n.orelse
      [] n.kind = "Try" -> n.body \o n.handlers \o n.orelse \o n.finalbody
      [] n.kind = "ExceptHandler" -> <<n.type>> \o n.body
      [] n.kind = "Match" -> <<n.subject>> \o n.cases
      [] n.kind = "match_case" -> <<n.pattern, n.guard>> \o n.body
      [] n.kind = "Call" -> <<n.func>> \o n.args
      [] n.kind \in {"Module", "Delete", "Tuple", "MatchSequence"} ->
           (IF n.kind = "Module" THEN n.body
            ELSE IF n.kind = "Delete" THEN n.targets
            ELSE IF n.kind = "Tuple" THEN n.elts
            ELSE n.patterns)
      [] n.kind \in {"Expr", "Return", "MatchValue", "Attribute"} -> <<n.value>>
      [] OTHER -> <<>>,
    LAMBDA c : c # NoneNode)

C18_Step ==
  GenericStep =>
    /\ work' = [i \in 1..Len(GrammarOrder(node)) |-> visit(GrammarOrder(node)[i])]
                 \o Tail(work)
    /\ scopes' = scopes
    /\ refs' = refs

C18_Inv ==
  \A t \in Names :
    pc = "done" /\ tree = Module(<<For(Store(t), Load(t), <<Pass>>, <<>>)>>)
      => LastResult = <<{}, {t}>>

\* C18: the step that visits a node of a class without a handler queues the
\* node's children once each in the field order of the grammar, pushes no
\* frame, defines nothing and adds nothing to refs; a for loop has its
\* target visited before its iterable, so `for x in x: pass` alone reports
\* no free reference and the top-level definition x.
C18_GenericVisitInFieldOrder == [][C18_Step]_vars /\ []C18_Inv

\* `for x in x: pass` alone has been analysed.
C18_Witness ==
  /\ pc = "done"
  /\ tree = Module(<<For(Store("x"), Load("x"), <<Pass>>, <<>>)>>)
  /\ LastResult = <<{}, {"x"}>>

(***************************************************************************)
(* C19: what match patterns bind.                                          *)
(***************************************************************************)
\* A set holding the name, or nothing when the pattern has no name.
Named(name) == IF name = None THEN {} ELSE {name}

RECURSIVE PatternNames(_)
\* The names a pattern binds.
PatternNames(p) ==
  IF p.kind = "MatchAs"
    THEN Named(p.name) \cup (IF p.pattern = NoneNode THEN {} ELSE PatternNames(p.pattern))
  ELSE IF p.kind = "MatchStar" THEN Named(p.name)
  ELSE IF p.kind = "MatchSequence"
    THEN UNION {PatternNames(p.patterns[i]) : i \in 1..Len(p.patterns)}
  ELSE IF p.kind = "MatchMapping"
    THEN Named(p.rest) \cup UNION {PatternNames(p.patterns[i]) : i \in 1..Len(p.patterns)}
  ELSE {}

\* The first statement is a match statement; its only case.
FirstIsMatch == First.kind = "Match"
Case == First.cases[1]

C19_Step ==
  /\ Visiting("MatchAs") =>
       /\ refs' = refs
       /\ scopes' = [scopes EXCEPT ![Len(scopes)].defs = @ \cup Named(node.name)]
       /\ work' = (IF node.pattern = NoneNode THEN <<>> ELSE <<visit(node.pattern)>>)
                    \o Tail(work)
  /\ Visiting("MatchStar") =>
       /\ refs' = refs
       /\ scopes' = [scopes EXCEPT ![Len(scopes)].defs = @ \cup Named(node.name)]
       /\ work' = Tail(work)
  /\ Visiting("MatchMapping") =>
       /\ refs' = refs
       /\ scopes' = scopes
       /\ SubSeq(work', 1, Len(node.keys) + Len(node.patterns)) =
            [i \in 1..Len(node.keys) |-> visit(node.keys[i])]
              \o [i \in 1..Len(node.patterns) |-> visit(node.patterns[i])]
       /\ work'[Len(node.keys) + Len(node.patterns) + 1].node = node
       /\ work'[Len(node.keys) + Len(node.patterns) + 1].op # "visit"
       /\ SubSeq(work', Len(node.keys) + Len(node.patterns) + 2, Len(work')) = Tail(work)
  /\ Resuming("MatchMapping_rest") =>
       /\ refs' = refs
       /\ scopes' = [scopes EXCEPT ![Len(scopes)].defs = @ \cup Named(node.rest)]
       /\ work' = Tail(work)

C19_Inv ==
  /\ FirstIsMatch /\ Alone /\ pc = "done" =>
       /\ LastResult[2] = PatternNames(Case.pattern)
       /\ "y" \in PatternNames(Case.pattern) => "y" \notin refs
  /\ FirstIsMatch =>
       \A i \in 1..Len(work) :
         work[i].op = "MatchMapping_rest" =>
           PatternNames(work[i].node) \ Named(work[i].node.rest) \subseteq scopes[1].defs
               \/ \E j \in 1..(i - 1) : work[j].op = "visit"

\* C19: a capture pattern adds its name, when it has one, to the top frame
\* in the step that visits it, before its sub-pattern is visited; a star
\* pattern adds its name when it has one; a mapping pattern has its keys
\* visited, then its sub-patterns, and only then its rest name added to the
\* top frame; a pattern without a name defines nothing, and none of these
\* steps changes refs. After `match x: case p: ...` alone the top-level
\* definitions are exactly the names p binds, and a load of a name p binds in
\* the guard or the body is not reported free.
C19_MatchBindings == [][C19_Step]_vars /\ []C19_Inv

\* `match x: case {1: y, **x} if y: y` alone has been analysed: y and the
\* rest name x are top-level definitions, and only the subject x, loaded
\* before any pattern was visited, is free.
C19_Witness ==
  /\ pc = "done"
  /\ tree = Module(<<Match(Load("x"),
                           <<match_case(MatchMapping(<<Constant>>,
                                                     <<MatchAs(NoneNode, "y")>>, "x"),
                                        Load("y"), <<Expr(Load("y"))>>)>>)>>)
  /\ LastResult = <<{"x"}, {"x", "y"}>>

(***************************************************************************)
(* C20: the name of an exception handler.                                  *)
(***************************************************************************)
\* The first statement is a try statement; its only handler.
FirstIsTry == First.kind = "Try"
Handler == First.handlers[1]

\* The names the body of the handler loads.
HandlerBodyLoads ==
  UNION {LoadIds(Handler.body[i]) : i \in 1..Len(Handler.body)}

\* C20: the name bound by `except ... as name` is defined in the top frame
\* before the body of the handler is visited: after a try statement alone
\* whose handler body loads that name, the name is not reported free, unless
\* the exception type of the handler loaded it before it was bound.
C20_HandlerNameDefined ==
  /\ pc = "done"
  /\ FirstIsTry
  /\ Alone
  /\ Handler.name # None
  /\ Handler.name \in HandlerBodyLoads
  /\ Handler.type = NoneNode \/ Handler.name \notin LoadIds(Handler.type)
  => Handler.name \notin refs

\* `try: pass / except x as y: y` alone has been analysed: nothing defined
\* y, and the load of y in the handler body is reported free with x.
C20_Witness ==
  /\ pc = "done"
  /\ tree = Module(<<Try(<<Pass>>,
                         <<ExceptHandler(Load("x"), "y", <<Expr(Load("y"))>>)>>,
                         <<>>, <<>>)>>)
  /\ LastResult = <<{"x", "y"}, {}>>

====
